---- MODULE Spec2Model ----
(***************************************************************************)
(* Model of the AgentCore deployment tutorial:                             *)
(*   - deploy-agent.ts  (create-or-update a runtime, poll it to READY)     *)
(*   - agent.ts         (Express server: POST /invocations, GET /ping)     *)
(* The control plane and the agent are the environment: their answers are  *)
(* chosen nondeterministically from small sets.                            *)
(***************************************************************************)
EXTENDS Integers, Sequences, FiniteSets, TLC

(***************************************************************************)
(* Bounds of the model                                                     *)
(***************************************************************************)
\* getRuntime calls one deploy run may issue before the model stops it
MaxPolls == 3
\* runtimes the control plane holds before a deploy run starts
MaxListing == 2
\* HTTP requests the server receives
MaxRequests == 2
\* the number of client runs made one after the other
MaxClientRuns == 2
\* the number of setup runs made one after the other
MaxSetupRuns == 2
\* batch-get-builds calls the build script may make before the model stops it
MaxBuildPolls == 3

(***************************************************************************)
(* JavaScript values used by deploy-agent.ts                               *)
(***************************************************************************)
Undefined == "<undefined>"

\* !v for a value that is a string or undefined
Falsy(v) == v = Undefined \/ v = ""

\* a || b
OrElse(a, b) == IF Falsy(a) THEN b ELSE a

AGENT_NAME == "agentcore_deployment"

Runs == {1, 2}

\* `${REPO_URI}:latest`
ContainerUri(repo) == <<repo, ":latest">>

\* a ?? b
NullishOr(a, b) == IF a = Undefined THEN b ELSE a

\* res.failureReason ?? 'Unknown'
NullishReason(failureReason) == NullishOr(failureReason, "Unknown")

\* res.failureReason || 'Unknown'
ReasonOrUnknown(failureReason) == OrElse(failureReason, "Unknown")

\* a message that drops the remote reason
MessageWithoutReason(failureReason) == <<"Deployment failed: ", "Unknown">>

\* `Deployment failed: ${res.failureReason || 'Unknown'}`
DeploymentFailedMessage(failureReason) ==
    <<"Deployment failed: ", ReasonOrUnknown(failureReason)>>

ConfigMessage ==
    <<"Missing required environment variables. Run setup-prerequisites.sh and export ROLE_ARN and REPO_URI.">>

\* what a rejected send() throws
TransportError == <<"TransportError">>
\* the rejection of a create whose name is taken
ConflictError == <<"ConflictError">>

\* status values getRuntime may report; DELETING stands for any value the
\* script does not name, Undefined for a response without a status
InProgress == {"CREATING", "UPDATING"}
Failed == {"CREATE_FAILED", "UPDATE_FAILED"}
StatusValues == InProgress \cup Failed \cup {"READY", "DELETING", Undefined}
ReasonValues == {Undefined, "", "image pull failed"}
EnvValues == {Undefined, "", "set"}
RuntimeNames == {AGENT_NAME, "other_agent"}

NoAgent == [agentRuntimeId |-> 0, agentRuntimeName |-> Undefined]
NoResponse == [agentRuntimeId |-> 0, agentRuntimeArn |-> <<>>, status |-> Undefined]

Arn(id) == <<"arn:runtime", id>>

VARIABLES
    ROLE_ARN,       \* [Runs -> process.env.ROLE_ARN of the run]
    REPO_URI,       \* [Runs -> process.env.REPO_URI of the run]
    cp,             \* the control plane's runtimes, in listing order
    cp0,            \* the control plane's runtimes before any run (history)
    pc,             \* [Runs -> where the script is]
    listing,        \* [Runs -> what listRuntimes returned to the run]
    existingAgent,  \* [Runs -> result of findExistingAgent]
    response,       \* [Runs -> response of the create/update call]
    status,         \* [Runs -> waitForReady's local status]
    calls,          \* [Runs -> remote calls issued, in order (history)]
    observed,       \* [Runs -> getRuntime responses received (history)]
    sleeps,         \* [Runs -> number of 10 s waits done]
    error,          \* [Runs -> message of the error the catch block got]
    success,        \* [Runs -> "none", or which READY line was printed]
    printedArn,     \* [Runs -> the ARN printed after the READY line]
    exitCode        \* [Runs -> process exit status]

deployVars == <<ROLE_ARN, REPO_URI, cp, cp0, pc, listing, existingAgent, response,
                status, calls, observed, sleeps, error, success, printedArn, exitCode>>

VARIABLES
    listening,      \* app.listen has been called
    reqs,           \* [RequestIds -> the HTTP request received, or NoRequest]
    stage,          \* [RequestIds -> "idle", "awaiting" (agent.invoke pending), "answered"]
    replies,        \* [RequestIds -> the responses written to the request, in order]
    agentCalls      \* the agent.invoke calls made, in order (history)

serverVars == <<listening, reqs, stage, replies, agentCalls>>

\* invoke-agent.ts: one process per client run, one run after the other
VARIABLES
    clientRun,          \* the number of the client run (0: none started yet)
    clientPc,           \* "off", "start", "send", "body", "exit"
    AGENT_RUNTIME_ARN,  \* process.env.AGENT_RUNTIME_ARN of the run
    PROMPT,             \* process.argv[2] || 'What is the weather now?'
    sessionId,          \* randomBytes(17).toString('hex')
    invocations,        \* the InvokeAgentRuntime commands sent, over all runs (history)
    stdout,             \* what the run wrote with console.log
    stderr,             \* what the run wrote with console.error
    clientExit          \* the exit status of the run

clientVars == <<clientRun, clientPc, AGENT_RUNTIME_ARN, PROMPT, sessionId, invocations,
                stdout, stderr, clientExit>>

\* setup-prerequisites.sh: one process per run, one run after the other, and the
\* account the runs act on
VARIABLES
    setupRun,        \* the number of the setup run (0: none started yet)
    setupPc,         \* the command the run is at, "off" or "exit"
    setupCalls,      \* the aws commands the run has issued, in order
    setupExit,       \* the exit status of the run
    iamRole,            \* the IAM role ROLE_NAME exists
    rolePolicy,      \* the inline policy AgentCoreRuntimePolicy is attached to it
    repository,      \* the ECR repository ECR_REPO_NAME exists
    lifecyclePolicy  \* the repository has its lifecycle policy

setupVars == <<setupRun, setupPc, setupCalls, setupExit, iamRole, rolePolicy, repository,
               lifecyclePolicy>>

\* build-image.sh, CodeBuild branch: the build is started and waited for
VARIABLES
    buildPc,        \* "off", "start-build", "poll", "sleep", "exit"
    STATUS,         \* the value of $STATUS
    buildStatuses,  \* the values $STATUS has had, in order (history)
    buildWaits,     \* the number of sleep 15 made
    buildOut,       \* the lines the script has written from the wait loop on
    buildExit       \* the exit status of the script

buildVars == <<buildPc, STATUS, buildStatuses, buildWaits, buildOut, buildExit>>

scriptVars == <<clientVars, setupVars, buildVars>>

vars == <<deployVars, serverVars, scriptVars>>

(***************************************************************************)
(* The control plane before a run: up to MaxListing runtimes, ids assigned *)
(* in creation order; names may repeat (the script does not rely on the    *)
(* uniqueness of names).                                                   *)
(***************************************************************************)
Runtime(id, name, container, role) ==
    [id |-> id, name |-> name, container |-> container, role |-> role,
     network |-> "PUBLIC"]

InitialControlPlanes ==
    UNION { { [i \in 1..n |-> Runtime(i, names[i], ContainerUri("old"), "old-role")]
              : names \in [1..n -> RuntimeNames] } : n \in 0..MaxListing }

\* ListAgentRuntimes: response.agentRuntimes
AgentRuntimes(plane) ==
    [i \in 1..Len(plane) |->
        [agentRuntimeId |-> plane[i].id, agentRuntimeName |-> plane[i].name]]

\* (agentRuntimes).find(a => a.agentRuntimeName === AGENT_NAME)
FindFirst(list) ==
    LET hits == {i \in 1..Len(list) : list[i].agentRuntimeName = AGENT_NAME}
    IN  IF hits = {} THEN NoAgent
        ELSE list[CHOOSE i \in hits : \A j \in hits : i <= j]

\* a lookup that never finds the runtime
FindNothing(list) == NoAgent

\* a lookup that returns the last entry of the name
FindLast(list) ==
    LET hits == {i \in 1..Len(list) : list[i].agentRuntimeName = AGENT_NAME}
    IN  IF hits = {} THEN NoAgent
        ELSE list[CHOOSE i \in hits : \A j \in hits : i >= j]

\* a lookup that returns the first entry of another name
FindOther(list) ==
    LET hits == {i \in 1..Len(list) : list[i].agentRuntimeName # AGENT_NAME}
    IN  IF hits = {} THEN NoAgent
        ELSE list[CHOOSE i \in hits : \A j \in hits : i <= j]

findExistingAgent(list) == FindFirst(list)

\* the input of a command; fields a command does not carry are left empty
CommandInput(id, name, container, role, network) ==
    [agentRuntimeId |-> id, agentRuntimeName |-> name, containerUri |-> container,
     roleArn |-> role, networkMode |-> network]

NoInput == CommandInput(0, Undefined, <<>>, Undefined, Undefined)

Call(op, req, ok) == [op |-> op, req |-> req, ok |-> ok]

CallsOf(r, op) == {i \in 1..Len(calls[r]) : calls[r][i].op = op}

(***************************************************************************)
(* Init: one deploy run about to start; the second run is not started.     *)
(***************************************************************************)
InitRun(active) ==
    /\ pc = [r \in Runs |-> IF r \in active THEN "start" ELSE "off"]
    /\ listing = [r \in Runs |-> <<>>]
    /\ existingAgent = [r \in Runs |-> NoAgent]
    /\ response = [r \in Runs |-> NoResponse]
    /\ status = [r \in Runs |-> Undefined]
    /\ calls = [r \in Runs |-> <<>>]
    /\ observed = [r \in Runs |-> <<>>]
    /\ sleeps = [r \in Runs |-> 0]
    /\ error = [r \in Runs |-> <<>>]
    /\ success = [r \in Runs |-> "none"]
    /\ printedArn = [r \in Runs |-> <<>>]
    /\ exitCode = [r \in Runs |-> 0]

InitDeploy ==
    /\ \E role \in EnvValues, repo \in EnvValues :
          /\ ROLE_ARN = [r \in Runs |-> IF r = 1 THEN role ELSE "set"]
          /\ REPO_URI = [r \in Runs |-> IF r = 1 THEN repo ELSE "set"]
    /\ cp \in InitialControlPlanes
    /\ cp0 = cp
    /\ InitRun({1})

(***************************************************************************)
(* catch (error) { console.error(...); process.exit(1) }                   *)
(***************************************************************************)
CatchExitCode == 1

Catch(r, message) ==
    /\ error' = [error EXCEPT ![r] = message]
    /\ exitCode' = [exitCode EXCEPT ![r] = CatchExitCode]
    /\ pc' = [pc EXCEPT ![r] = "exit"]

(***************************************************************************)
(* Step 1: validate the environment                                        *)
(***************************************************************************)
MissingRoleOnly(role, repo) == Falsy(role)
MissingEnv(role, repo) == Falsy(role) \/ Falsy(repo)

Validate(r) ==
    /\ pc[r] = "start"
    /\ IF MissingEnv(ROLE_ARN[r], REPO_URI[r])
       THEN Catch(r, ConfigMessage)
       ELSE /\ pc' = [pc EXCEPT ![r] = "list"]
            /\ UNCHANGED <<error, exitCode>>
    /\ UNCHANGED <<serverVars, scriptVars>>
    /\ UNCHANGED <<ROLE_ARN, REPO_URI, cp, cp0, listing, existingAgent, response,
                   status, calls, observed, sleeps, success, printedArn>>

(***************************************************************************)
(* Step 2: findExistingAgent, and the branch of step 3                     *)
(***************************************************************************)
\* the send() of a command rejects: nothing after it in the try block runs
Rethrow(r, message) == Catch(r, message)

\* a script that ignores the rejection and issues the call again
Retry(r, message) ==
    /\ pc' = pc
    /\ UNCHANGED <<error, exitCode>>

\* a script that swallows the rejection and goes on to poll
PollAnyway(r, message) ==
    /\ pc' = [pc EXCEPT ![r] = "sleep"]
    /\ UNCHANGED <<error, exitCode>>

\* a script that answers a rejected create with an update
FallBackToUpdate(r, message) ==
    /\ pc' = [pc EXCEPT ![r] = "update"]
    /\ UNCHANGED <<error, exitCode>>

RemoteFailure(r, message) == Rethrow(r, message)

\* the ListAgentRuntimes response: the field agentRuntimes holds the listing, or
\* is not set at all when there is nothing to list
ListResponses(plane) ==
    {[isSet |-> TRUE, agentRuntimes |-> AgentRuntimes(plane)]}
    \cup (IF plane = <<>> THEN {[isSet |-> FALSE, agentRuntimes |-> <<>>]} ELSE {})

\* response.agentRuntimes || []
ListOrEmpty(resp) == IF resp.isSet THEN resp.agentRuntimes ELSE <<>>

ListOk(r) ==
    /\ pc[r] = "list"
    /\ \E resp \in ListResponses(cp) :
          LET list == ListOrEmpty(resp)
              found == findExistingAgent(list)
          IN  /\ listing' = [listing EXCEPT ![r] = list]
              /\ existingAgent' = [existingAgent EXCEPT ![r] = found]
              /\ pc' = [pc EXCEPT ![r] = IF found # NoAgent THEN "update" ELSE "create"]
    /\ calls' = [calls EXCEPT ![r] = Append(@, Call("list", NoInput, TRUE))]
    /\ UNCHANGED <<serverVars, scriptVars>>
    /\ UNCHANGED <<ROLE_ARN, REPO_URI, cp, cp0, response, status, observed, sleeps,
                   error, success, printedArn, exitCode>>

ListFail(r) ==
    /\ pc[r] = "list"
    /\ calls' = [calls EXCEPT ![r] = Append(@, Call("list", NoInput, FALSE))]
    /\ RemoteFailure(r, TransportError)
    /\ UNCHANGED <<serverVars, scriptVars>>
    /\ UNCHANGED <<ROLE_ARN, REPO_URI, cp, cp0, listing, existingAgent, response,
                   status, observed, sleeps, success, printedArn>>

(***************************************************************************)
(* Step 3: UpdateAgentRuntimeCommand / CreateAgentRuntimeCommand           *)
(***************************************************************************)
UpdateInput(r) ==
    CommandInput(existingAgent[r].agentRuntimeId, Undefined, ContainerUri(REPO_URI[r]),
            ROLE_ARN[r], "PUBLIC")

CreateInput(r) ==
    CommandInput(0, AGENT_NAME, ContainerUri(REPO_URI[r]), ROLE_ARN[r], "PUBLIC")

\* the status field of the update / create response, which the script never reads
UpdateStatuses == {"UPDATING", "READY"}
CreateStatuses == {"CREATING", "READY"}

IndexOf(plane, id) == {i \in 1..Len(plane) : plane[i].id = id}

UpdateOk(r) ==
    /\ pc[r] = "update"
    /\ LET req == UpdateInput(r)
           at == IndexOf(cp, req.agentRuntimeId)
       IN  /\ at # {}
           /\ \E st \in UpdateStatuses :
                 response' = [response EXCEPT ![r] =
                     [agentRuntimeId |-> req.agentRuntimeId,
                      agentRuntimeArn |-> Arn(req.agentRuntimeId),
                      status |-> st]]
           /\ cp' = [i \in 1..Len(cp) |->
                        IF i \in at
                        THEN [cp[i] EXCEPT !.container = req.containerUri,
                                           !.role = req.roleArn,
                                           !.network = req.networkMode]
                        ELSE cp[i]]
           /\ calls' = [calls EXCEPT ![r] = Append(@, Call("update", req, TRUE))]
    /\ pc' = [pc EXCEPT ![r] = "sleep"]
    /\ UNCHANGED <<serverVars, scriptVars>>
    /\ UNCHANGED <<ROLE_ARN, REPO_URI, cp0, listing, existingAgent, status, observed,
                   sleeps, error, success, printedArn, exitCode>>

UpdateFail(r) ==
    /\ pc[r] = "update"
    /\ calls' = [calls EXCEPT ![r] = Append(@, Call("update", UpdateInput(r), FALSE))]
    /\ RemoteFailure(r, TransportError)
    /\ UNCHANGED <<serverVars, scriptVars>>
    /\ UNCHANGED <<ROLE_ARN, REPO_URI, cp, cp0, listing, existingAgent, response,
                   status, observed, sleeps, success, printedArn>>

NameExists(plane, name) == \E i \in 1..Len(plane) : plane[i].name = name

CreateOk(r) ==
    /\ pc[r] = "create"
    /\ LET req == CreateInput(r)
           id == Len(cp) + 1
       IN  /\ ~NameExists(cp, req.agentRuntimeName)
           /\ cp' = Append(cp, Runtime(id, req.agentRuntimeName, req.containerUri,
                                       req.roleArn))
           /\ calls' = [calls EXCEPT ![r] = Append(@, Call("create", req, TRUE))]
           /\ \E st \in CreateStatuses :
                 response' = [response EXCEPT ![r] =
                     [agentRuntimeId |-> id, agentRuntimeArn |-> Arn(id), status |-> st]]
    /\ pc' = [pc EXCEPT ![r] = "sleep"]
    /\ UNCHANGED <<serverVars, scriptVars>>
    /\ UNCHANGED <<ROLE_ARN, REPO_URI, cp0, listing, existingAgent, status, observed,
                   sleeps, error, success, printedArn, exitCode>>

CreateFail(r) ==
    /\ pc[r] = "create"
    /\ calls' = [calls EXCEPT ![r] = Append(@, Call("create", CreateInput(r), FALSE))]
    /\ RemoteFailure(r, TransportError)
    /\ UNCHANGED <<serverVars, scriptVars>>
    /\ UNCHANGED <<ROLE_ARN, REPO_URI, cp, cp0, listing, existingAgent, response,
                   status, observed, sleeps, success, printedArn>>

\* the control plane rejects the create because another run has created a runtime
\* of that name since this run listed
CreateConflict(r) ==
    /\ pc[r] = "create"
    /\ NameExists(cp, CreateInput(r).agentRuntimeName)
    /\ calls' = [calls EXCEPT ![r] = Append(@, Call("create", CreateInput(r), FALSE))]
    /\ RemoteFailure(r, ConflictError)
    /\ UNCHANGED <<serverVars, scriptVars>>
    /\ UNCHANGED <<ROLE_ARN, REPO_URI, cp, cp0, listing, existingAgent, response,
                   status, observed, sleeps, success, printedArn>>

(***************************************************************************)
(* waitForReady: do { sleep; getRuntime; ... } while (in progress)         *)
(***************************************************************************)
\* status === 'CREATE_FAILED' || status === 'UPDATE_FAILED'
IsFailed(st) == st = "CREATE_FAILED" \/ st = "UPDATE_FAILED"

\* while (status === 'CREATING' || status === 'UPDATING')
ContinuesUntilNotReady(st) == st = "CREATING" \/ st = "UPDATING" \/ st = "READY"
\* a loop condition that never turns false
LoopForever(st) == TRUE
LoopContinues(st) == st = "CREATING" \/ st = "UPDATING"

\* a poller that asks for the id found in the listing
GetListed(r) ==
    CommandInput(existingAgent[r].agentRuntimeId, Undefined, <<>>, Undefined, Undefined)

GetInput(r) ==
    CommandInput(response[r].agentRuntimeId, Undefined, <<>>, Undefined, Undefined)

\* a loop that asks again without waiting
NoWait(r) ==
    /\ pc[r] = "sleep"
    /\ Cardinality(CallsOf(r, "get")) < MaxPolls
    /\ pc' = [pc EXCEPT ![r] = "get"]
    /\ UNCHANGED <<serverVars, scriptVars>>
    /\ UNCHANGED <<ROLE_ARN, REPO_URI, cp, cp0, listing, existingAgent, response,
                   status, calls, observed, sleeps, error, success, printedArn,
                   exitCode>>

Sleep(r) ==
    /\ pc[r] = "sleep"
    /\ Cardinality(CallsOf(r, "get")) < MaxPolls
    /\ sleeps' = [sleeps EXCEPT ![r] = @ + 1]
    /\ pc' = [pc EXCEPT ![r] = "get"]
    /\ UNCHANGED <<serverVars, scriptVars>>
    /\ UNCHANGED <<ROLE_ARN, REPO_URI, cp, cp0, listing, existingAgent, response,
                   status, calls, observed, error, success, printedArn, exitCode>>

\* the READY line the branch prints once waitForReady has returned
Branch(r) == IF existingAgent[r] # NoAgent THEN "updated" ELSE "created"

GetOk(r) ==
    /\ pc[r] = "get"
    /\ \E st \in StatusValues :
       \E failureReason \in (IF st \in Failed THEN ReasonValues ELSE {Undefined}) :
          /\ status' = [status EXCEPT ![r] = st]
          /\ observed' = [observed EXCEPT ![r] =
                 Append(@, [status |-> st, failureReason |-> failureReason])]
          /\ IF IsFailed(st)
             THEN /\ Catch(r, DeploymentFailedMessage(failureReason))
                  /\ UNCHANGED <<success, printedArn>>
             ELSE IF LoopContinues(st)
             THEN /\ pc' = [pc EXCEPT ![r] = "sleep"]
                  /\ UNCHANGED <<error, exitCode, success, printedArn>>
             ELSE /\ success' = [success EXCEPT ![r] = Branch(r)]
                  /\ printedArn' = [printedArn EXCEPT ![r] = response[r].agentRuntimeArn]
                  /\ pc' = [pc EXCEPT ![r] = "exit"]
                  /\ UNCHANGED <<error, exitCode>>
    /\ calls' = [calls EXCEPT ![r] = Append(@, Call("get", GetInput(r), TRUE))]
    /\ UNCHANGED <<serverVars, scriptVars>>
    /\ UNCHANGED <<ROLE_ARN, REPO_URI, cp, cp0, listing, existingAgent, response,
                   sleeps>>

GetFail(r) ==
    /\ pc[r] = "get"
    /\ calls' = [calls EXCEPT ![r] = Append(@, Call("get", GetInput(r), FALSE))]
    /\ RemoteFailure(r, TransportError)
    /\ UNCHANGED <<serverVars, scriptVars>>
    /\ UNCHANGED <<ROLE_ARN, REPO_URI, cp, cp0, listing, existingAgent, response,
                   status, observed, sleeps, success, printedArn>>

(***************************************************************************)
(* The deploy script                                                       *)
(***************************************************************************)
NextDeploy ==
    \E r \in Runs :
        \/ Validate(r)
        \/ ListOk(r)
        \/ ListFail(r)
        \/ UpdateOk(r)
        \/ UpdateFail(r)
        \/ CreateOk(r)
        \/ CreateFail(r)
        \/ Sleep(r)
        \/ GetOk(r)
        \/ GetFail(r)

(***************************************************************************)
(* agent.ts: the Express server                                            *)
(***************************************************************************)
RequestIds == 1..MaxRequests

\* JavaScript values a request body is made of
JsUndefined == [type |-> "undefined", str |-> ""]
JsString(text) == [type |-> "string", str |-> text]

InputUndefined == [type |-> "undefined", prompt |-> JsUndefined]
InputNull == [type |-> "null", prompt |-> JsUndefined]
InputObject(prompt) == [type |-> "object", prompt |-> prompt]

BodyString(text) == [type |-> "string", str |-> text, input |-> InputUndefined]
BodyObject(input) == [type |-> "object", str |-> "", input |-> input]

\* !v
JsFalsy(v) == v.type = "undefined" \/ (v.type = "string" /\ v.str = "")

\* a guard that lets the empty string through
OnlyUndefined(v) == v.type = "undefined"

\* an HTTP request: its route, its Content-Type, whether it carries a body
\* (Content-Length or Transfer-Encoding is set) and the body's text
HttpRequest(route, ctype, hasBody, raw) ==
    [route |-> route, ctype |-> ctype, hasBody |-> hasBody, raw |-> raw]

NoRequest == HttpRequest("none", "none", FALSE, "")

JsonObjects ==
    {"{}", "{\"input\":null}", "{\"input\":{}}", "{\"input\":{\"prompt\":\"\"}}",
     "{\"input\":{\"prompt\":\"hi\"}}"}

RawBodies == {"", "hi"} \cup JsonObjects

RequestsTo(route) ==
    {HttpRequest(route, "none", FALSE, "")}
    \cup {HttpRequest(route, "text/plain", TRUE, "hi")}
    \cup {HttpRequest(route, ctype, TRUE, raw) :
            ctype \in {"application/octet-stream", "application/json"}, raw \in RawBodies}

\* JSON.parse of a body text, in body-parser's strict mode: objects only
JsonParse(raw) ==
    CASE raw = "{}" -> [ok |-> TRUE, value |-> BodyObject(InputUndefined)]
      [] raw = "{\"input\":null}" -> [ok |-> TRUE, value |-> BodyObject(InputNull)]
      [] raw = "{\"input\":{}}" -> [ok |-> TRUE, value |-> BodyObject(InputObject(JsUndefined))]
      [] raw = "{\"input\":{\"prompt\":\"\"}}" ->
            [ok |-> TRUE, value |-> BodyObject(InputObject(JsString("")))]
      [] raw = "{\"input\":{\"prompt\":\"hi\"}}" ->
            [ok |-> TRUE, value |-> BodyObject(InputObject(JsString("hi")))]
      [] OTHER -> [ok |-> FALSE, value |-> BodyObject(InputUndefined)]

\* app.use(express.text({ type: 'application/octet-stream' })); app.use(express.json())
\* Each parser first sets req.body = req.body || {}, skips a request without a body
\* or of another Content-Type, and otherwise reads the body: express.text yields the
\* text, express.json yields {} for an empty body and the parsed object otherwise,
\* and passes a 400 error on when the text is not a JSON object.
Middleware(req) ==
    IF ~req.hasBody
    THEN [ok |-> TRUE, body |-> BodyObject(InputUndefined)]
    ELSE IF req.ctype = "application/octet-stream"
    THEN [ok |-> TRUE, body |-> BodyString(req.raw)]
    ELSE IF req.ctype = "application/json"
    THEN IF req.raw = ""
         THEN [ok |-> TRUE, body |-> BodyObject(InputUndefined)]
         ELSE [ok |-> JsonParse(req.raw).ok, body |-> JsonParse(req.raw).value]
    ELSE [ok |-> TRUE, body |-> BodyObject(InputUndefined)]

\* typeof req.body === 'string' ? req.body : req.body.input?.prompt
UserMessage(body) ==
    IF body.type = "string" THEN JsString(body.str)
    ELSE IF body.input.type \in {"undefined", "null"} THEN JsUndefined
    ELSE body.input.prompt

\* if (!userMessage)
NoPrompt(userMessage) == JsFalsy(userMessage)

Reply(code, type, body) == [status |-> code, type |-> type, body |-> body]

\* Express's default error handler, for the error a parser passed on
ParseErrorReply == Reply(400, "text/html", <<"SyntaxError">>)

\* res.status(400).send("No prompt provided")
NoPromptReply == Reply(400, "text/html", <<"No prompt provided">>)

\* res.type('text/plain').send(result.toString())
ResultReply(text) == Reply(200, "text/plain", <<text>>)

\* a catch block that sends the error as if it were the result
ErrorAsResult(err) == Reply(200, "text/plain", <<err.text>>)

\* res.status(500).send(`Error: ${error instanceof Error ? error.message : String(error)}`)
ErrorReply(err) == Reply(500, "text/html", <<"Error: ", err.text>>)

\* a probe that reports the agent's condition
UnhealthyReply == Reply(503, "application/json", <<"{\"status\":\"Unhealthy\"}">>)

\* res.json({ status: 'Healthy' })
PingReply == Reply(200, "application/json", <<"{\"status\":\"Healthy\"}">>)

\* what agent.invoke may resolve to (result.toString()) or reject with
AgentTexts == {"sunny", "4"}
AgentErrors == {[isError |-> TRUE, text |-> "model unavailable"],
                [isError |-> FALSE, text |-> "throttled"]}

InitServer ==
    /\ listening = FALSE
    /\ reqs = [i \in RequestIds |-> NoRequest]
    /\ stage = [i \in RequestIds |-> "idle"]
    /\ replies = [i \in RequestIds |-> <<>>]
    /\ agentCalls = <<>>

\* app.listen(PORT, '0.0.0.0', ...)
Listen ==
    /\ ~listening
    /\ listening' = TRUE
    /\ UNCHANGED <<reqs, stage, replies, agentCalls>>
    /\ UNCHANGED <<deployVars, scriptVars>>

\* request i is the next one to arrive
Arrives(i) ==
    /\ listening
    /\ reqs[i] = NoRequest
    /\ \A j \in RequestIds : j < i => reqs[j] # NoRequest

\* POST /invocations, up to the await of agent.invoke
PostInvocations(i) ==
    /\ Arrives(i)
    /\ \E req \in RequestsTo("POST /invocations") :
          /\ reqs' = [reqs EXCEPT ![i] = req]
          /\ IF ~Middleware(req).ok
             THEN /\ replies' = [replies EXCEPT ![i] = Append(@, ParseErrorReply)]
                  /\ stage' = [stage EXCEPT ![i] = "answered"]
                  /\ UNCHANGED agentCalls
             ELSE LET userMessage == UserMessage(Middleware(req).body)
                  IN  IF NoPrompt(userMessage)
                      THEN /\ replies' = [replies EXCEPT ![i] = Append(@, NoPromptReply)]
                           /\ stage' = [stage EXCEPT ![i] = "answered"]
                           /\ UNCHANGED agentCalls
                      ELSE /\ agentCalls' = Append(agentCalls,
                                  [req |-> i, prompt |-> userMessage.str,
                                   outcome |-> "pending", text |-> ""])
                           /\ stage' = [stage EXCEPT ![i] = "awaiting"]
                           /\ UNCHANGED replies
    /\ UNCHANGED listening
    /\ UNCHANGED <<deployVars, scriptVars>>

\* one slot shared by all requests: the call made last
LatestCall(i) == Len(agentCalls)

CallOf(i) == CHOOSE k \in 1..Len(agentCalls) : agentCalls[k].req = i

\* agent.invoke resolves: the rest of the try block
AgentResolves(i) ==
    /\ stage[i] = "awaiting"
    /\ \E text \in AgentTexts :
          /\ agentCalls' = [agentCalls EXCEPT ![CallOf(i)].outcome = "resolved",
                                              ![CallOf(i)].text = text]
          /\ replies' = [replies EXCEPT ![i] = Append(@, ResultReply(text))]
    /\ stage' = [stage EXCEPT ![i] = "answered"]
    /\ UNCHANGED <<listening, reqs>>
    /\ UNCHANGED <<deployVars, scriptVars>>

\* agent.invoke rejects: the catch block
AgentRejects(i) ==
    /\ stage[i] = "awaiting"
    /\ \E err \in AgentErrors :
          /\ agentCalls' = [agentCalls EXCEPT ![CallOf(i)].outcome = "rejected",
                                              ![CallOf(i)].text = err.text]
          /\ replies' = [replies EXCEPT ![i] = Append(@, ErrorReply(err))]
    /\ stage' = [stage EXCEPT ![i] = "answered"]
    /\ UNCHANGED <<listening, reqs>>
    /\ UNCHANGED <<deployVars, scriptVars>>

\* GET /ping
GetPing(i) ==
    /\ Arrives(i)
    /\ \E req \in RequestsTo("GET /ping") :
          /\ reqs' = [reqs EXCEPT ![i] = req]
          /\ replies' = [replies EXCEPT ![i] =
                Append(@, IF ~Middleware(req).ok THEN ParseErrorReply ELSE PingReply)]
    /\ stage' = [stage EXCEPT ![i] = "answered"]
    /\ UNCHANGED <<listening, agentCalls>>
    /\ UNCHANGED <<deployVars, scriptVars>>

NextServer ==
    \/ Listen
    \/ \E i \in RequestIds :
          \/ PostInvocations(i)
          \/ AgentResolves(i)
          \/ AgentRejects(i)
          \/ GetPing(i)

(***************************************************************************)
(* invoke-agent.ts: the invocation client                                  *)
(***************************************************************************)
ArgValues == {Undefined, "", "hi"}

SessionIds == {"5f0c", "a91e"}

\* process.argv[2] || 'What is the weather now?'
DefaultPrompt == "What is the weather now?"

\* !AGENT_RUNTIME_ARN
NoArn(arn) == Falsy(arn)

\* new InvokeAgentRuntimeCommand({...})
InvokeCommand(run, arn, session, prompt) ==
    [run |-> run, agentRuntimeArn |-> arn, runtimeSessionId |-> session,
     payload |-> prompt, qualifier |-> "DEFAULT"]

\* the values response.response?.transformToString() can give: undefined when
\* the response carries no body, else the text of the body
BodyValues == {Undefined} \cup AgentTexts

IdleClient ==
    /\ clientRun = 0
    /\ clientPc = "off"
    /\ AGENT_RUNTIME_ARN = Undefined
    /\ PROMPT = DefaultPrompt
    /\ sessionId = Undefined
    /\ invocations = <<>>
    /\ stdout = <<>>
    /\ stderr = <<>>
    /\ clientExit = 0

\* step 1: a new process reads its environment and its argument
StartClient ==
    /\ clientPc \in {"off", "exit"}
    /\ clientRun < MaxClientRuns
    /\ clientRun' = clientRun + 1
    /\ \E arn \in EnvValues, arg \in ArgValues :
          /\ AGENT_RUNTIME_ARN' = arn
          /\ PROMPT' = OrElse(arg, DefaultPrompt)
    /\ sessionId' = Undefined
    /\ stdout' = <<>>
    /\ stderr' = <<>>
    /\ clientExit' = 0
    /\ clientPc' = "start"
    /\ UNCHANGED invocations
    /\ UNCHANGED <<deployVars, serverVars, setupVars, buildVars>>

\* steps 2 and 3: validate, then draw the session id and build the command
ValidateClient ==
    /\ clientPc = "start"
    /\ IF NoArn(AGENT_RUNTIME_ARN)
       THEN /\ stderr' = Append(stderr,
                    <<"AGENT_RUNTIME_ARN environment variable is required">>)
            /\ clientExit' = 1
            /\ clientPc' = "exit"
            /\ UNCHANGED sessionId
       ELSE /\ \E id \in SessionIds : sessionId' = id
            /\ clientPc' = "send"
            /\ UNCHANGED <<stderr, clientExit>>
    /\ UNCHANGED <<clientRun, AGENT_RUNTIME_ARN, PROMPT, invocations, stdout>>
    /\ UNCHANGED <<deployVars, serverVars, setupVars, buildVars>>

\* a catch block that sends the command again
InvokeAgain(err) ==
    /\ clientPc' = "send"
    /\ UNCHANGED <<stderr, clientExit>>

\* catch (error) { console.error('Invocation failed:', error); process.exit(1) }
InvocationFailed(err) ==
    /\ stderr' = Append(stderr, <<"Invocation failed:", err>>)
    /\ clientExit' = 1
    /\ clientPc' = "exit"

Command == InvokeCommand(clientRun, AGENT_RUNTIME_ARN, sessionId, PROMPT)

\* await client.send(command) resolves
SendOk ==
    /\ clientPc = "send"
    /\ invocations' = Append(invocations, Command)
    /\ clientPc' = "body"
    /\ UNCHANGED <<clientRun, AGENT_RUNTIME_ARN, PROMPT, sessionId, stdout, stderr,
                   clientExit>>
    /\ UNCHANGED <<deployVars, serverVars, setupVars, buildVars>>

\* await client.send(command) rejects
SendFail ==
    /\ clientPc = "send"
    /\ invocations' = Append(invocations, Command)
    /\ InvocationFailed("TransportError")
    /\ UNCHANGED <<clientRun, AGENT_RUNTIME_ARN, PROMPT, sessionId, stdout>>
    /\ UNCHANGED <<deployVars, serverVars, setupVars, buildVars>>

\* await response.response?.transformToString() gives a value, which is printed
BodyOk ==
    /\ clientPc = "body"
    /\ \E responseBody \in BodyValues :
          stdout' = Append(stdout, <<"Agent Response:", responseBody>>)
    /\ clientPc' = "exit"
    /\ UNCHANGED <<clientRun, AGENT_RUNTIME_ARN, PROMPT, sessionId, invocations, stderr,
                   clientExit>>
    /\ UNCHANGED <<deployVars, serverVars, setupVars, buildVars>>

\* reading the body stream rejects
BodyFail ==
    /\ clientPc = "body"
    /\ InvocationFailed("StreamError")
    /\ UNCHANGED <<clientRun, AGENT_RUNTIME_ARN, PROMPT, sessionId, invocations, stdout>>
    /\ UNCHANGED <<deployVars, serverVars, setupVars, buildVars>>

NextClient ==
    \/ StartClient
    \/ ValidateClient
    \/ SendOk
    \/ SendFail
    \/ BodyOk
    \/ BodyFail

(***************************************************************************)
(* setup-prerequisites.sh (bash, set -e)                                   *)
(***************************************************************************)
\* the exit status of an aws command that failed
AwsFailureCodes == {254, 255}

\* no setup run has started; the account holds the role and the repository
\* complete, or not at all
IdleSetup ==
    /\ setupRun = 0
    /\ setupPc = "off"
    /\ setupCalls = <<>>
    /\ setupExit = 0
    /\ iamRole \in BOOLEAN
    /\ rolePolicy = iamRole
    /\ repository \in BOOLEAN
    /\ lifecyclePolicy = repository

\* the frame of a step that leaves the account as it is
AccountUnchanged == UNCHANGED <<iamRole, rolePolicy, repository, lifecyclePolicy>>

Issue(cmd) == setupCalls' = Append(setupCalls, cmd)

\* set -e: a failing command that is not the condition of an if ends the script
\* with that command's status
Abort ==
    /\ \E code \in AwsFailureCodes : setupExit' = code
    /\ setupPc' = "exit"

\* the script goes on with the next command
Then(next) ==
    /\ setupPc' = next
    /\ UNCHANGED setupExit

StartSetup ==
    /\ setupPc \in {"off", "exit"}
    /\ setupRun < MaxSetupRuns
    /\ setupRun' = setupRun + 1
    /\ setupCalls' = <<>>
    /\ setupExit' = 0
    /\ setupPc' = "get-caller-identity"
    /\ AccountUnchanged
    /\ UNCHANGED <<deployVars, serverVars, clientVars, buildVars>>

\* AWS_ACCOUNT_ID=$(aws sts get-caller-identity ...)
GetCallerIdentity ==
    /\ setupPc = "get-caller-identity"
    /\ Issue("get-caller-identity")
    /\ \/ Then("get-role")
       \/ Abort
    /\ AccountUnchanged
    /\ UNCHANGED <<setupRun>>
    /\ UNCHANGED <<deployVars, serverVars, clientVars, buildVars>>

\* if aws iam get-role ...; then (already exists) else (create): the command
\* succeeds only for a role that exists, and any failure takes the else branch
GetRole ==
    /\ setupPc = "get-role"
    /\ Issue("get-role")
    /\ \/ iamRole /\ Then("describe-repositories")
       \/ Then("create-role")
    /\ AccountUnchanged
    /\ UNCHANGED <<setupRun>>
    /\ UNCHANGED <<deployVars, serverVars, clientVars, buildVars>>

\* aws iam create-role: fails for a role that exists, and may fail otherwise
CreateRole ==
    /\ setupPc = "create-role"
    /\ Issue("create-role")
    /\ \/ ~iamRole /\ iamRole' = TRUE /\ Then("put-role-policy")
       \/ Abort /\ UNCHANGED iamRole
    /\ UNCHANGED <<rolePolicy, repository, lifecyclePolicy>>
    /\ UNCHANGED <<setupRun>>
    /\ UNCHANGED <<deployVars, serverVars, clientVars, buildVars>>

\* aws iam put-role-policy --policy-name AgentCoreRuntimePolicy
PutRolePolicy ==
    /\ setupPc = "put-role-policy"
    /\ Issue("put-role-policy")
    /\ \/ iamRole /\ rolePolicy' = TRUE /\ Then("describe-repositories")
       \/ Abort /\ UNCHANGED rolePolicy
    /\ UNCHANGED <<iamRole, repository, lifecyclePolicy>>
    /\ UNCHANGED <<setupRun>>
    /\ UNCHANGED <<deployVars, serverVars, clientVars, buildVars>>

\* if aws ecr describe-repositories ...; then (already exists) else (create);
\* the then branch is followed only by echo lines and the end of the script
DescribeRepositories ==
    /\ setupPc = "describe-repositories"
    /\ Issue("describe-repositories")
    /\ \/ repository /\ Then("exit")
       \/ Then("create-repository")
    /\ AccountUnchanged
    /\ UNCHANGED <<setupRun>>
    /\ UNCHANGED <<deployVars, serverVars, clientVars, buildVars>>

\* aws ecr create-repository
CreateRepository ==
    /\ setupPc = "create-repository"
    /\ Issue("create-repository")
    /\ \/ ~repository /\ repository' = TRUE /\ Then("put-lifecycle-policy")
       \/ Abort /\ UNCHANGED repository
    /\ UNCHANGED <<iamRole, rolePolicy, lifecyclePolicy>>
    /\ UNCHANGED <<setupRun>>
    /\ UNCHANGED <<deployVars, serverVars, clientVars, buildVars>>

\* aws ecr put-lifecycle-policy, then echo lines and the end of the script
PutLifecyclePolicy ==
    /\ setupPc = "put-lifecycle-policy"
    /\ Issue("put-lifecycle-policy")
    /\ \/ repository /\ lifecyclePolicy' = TRUE /\ Then("exit")
       \/ Abort /\ UNCHANGED lifecyclePolicy
    /\ UNCHANGED <<iamRole, rolePolicy, repository>>
    /\ UNCHANGED <<setupRun>>
    /\ UNCHANGED <<deployVars, serverVars, clientVars, buildVars>>

NextSetup ==
    \/ StartSetup
    \/ GetCallerIdentity
    \/ GetRole
    \/ CreateRole
    \/ PutRolePolicy
    \/ DescribeRepositories
    \/ CreateRepository
    \/ PutLifecyclePolicy

(***************************************************************************)
(* build-image.sh (bash, set -e): start-build and the wait loop            *)
(***************************************************************************)
\* the values --query 'builds[0].buildStatus' --output text can print: the
\* build statuses of CodeBuild, and None for a missing value
BuildStatusValues ==
    {"SUCCEEDED", "FAILED", "FAULT", "STOPPED", "IN_PROGRESS", "TIMED_OUT", "None"}

\* [ "$STATUS" = "SUCCEEDED" ]
BuildSucceeded(st) == st = "SUCCEEDED"

\* a test that knows FAILED only
OnlyFailed(st) == st = "FAILED"

\* [ "$STATUS" = "FAILED" ] || [ "$STATUS" = "FAULT" ] || [ "$STATUS" = "STOPPED" ]
BuildFailed(st) == st = "FAILED" \/ st = "FAULT" \/ st = "STOPPED"

NotStarted ==
    /\ STATUS = Undefined
    /\ buildStatuses = <<>>
    /\ buildWaits = 0
    /\ buildOut = <<>>
    /\ buildExit = 0

IdleBuild ==
    /\ buildPc = "off"
    /\ NotStarted

\* set -e: a failing command substitution ends the script with its status
BuildAbort ==
    /\ \E code \in AwsFailureCodes : buildExit' = code
    /\ buildPc' = "exit"

\* BUILD_ID=$(aws codebuild start-build ...)
StartBuild ==
    /\ buildPc = "start-build"
    /\ \/ /\ buildPc' = "poll"
          /\ buildOut' = Append(buildOut, <<"Waiting for build to complete...">>)
          /\ UNCHANGED buildExit
       \/ /\ BuildAbort
          /\ UNCHANGED buildOut
    /\ UNCHANGED <<STATUS, buildStatuses, buildWaits>>
    /\ UNCHANGED <<deployVars, serverVars, clientVars, setupVars>>

\* STATUS=$(aws codebuild batch-get-builds ...) and the tests on it; after the
\* break only echo lines follow, to the end of the script
PollBuild ==
    /\ buildPc = "poll"
    /\ \E st \in BuildStatusValues :
          /\ STATUS' = st
          /\ buildStatuses' = Append(buildStatuses, st)
          /\ IF BuildSucceeded(st)
             THEN /\ buildOut' = buildOut \o <<(<<"Build succeeded!">>),
                                               (<<"Image pushed to: ", "REPO_URI", ":latest">>)>>
                  /\ buildExit' = 0
                  /\ buildPc' = "exit"
             ELSE IF BuildFailed(st)
             THEN /\ buildOut' = Append(buildOut, <<"Build failed with status: ", st>>)
                  /\ buildExit' = 1
                  /\ buildPc' = "exit"
             ELSE /\ buildOut' = Append(buildOut, <<"  Status: ", st>>)
                  /\ buildPc' = "sleep"
                  /\ UNCHANGED buildExit
    /\ UNCHANGED buildWaits
    /\ UNCHANGED <<deployVars, serverVars, clientVars, setupVars>>

\* the batch-get-builds command itself fails
PollBuildFails ==
    /\ buildPc = "poll"
    /\ BuildAbort
    /\ UNCHANGED <<STATUS, buildStatuses, buildWaits, buildOut>>
    /\ UNCHANGED <<deployVars, serverVars, clientVars, setupVars>>

\* sleep 15
BuildSleep ==
    /\ buildPc = "sleep"
    /\ Len(buildStatuses) < MaxBuildPolls
    /\ buildWaits' = buildWaits + 1
    /\ buildPc' = "poll"
    /\ UNCHANGED <<STATUS, buildStatuses, buildOut, buildExit>>
    /\ UNCHANGED <<deployVars, serverVars, clientVars, setupVars>>

NextBuild ==
    \/ StartBuild
    \/ PollBuild
    \/ PollBuildFails
    \/ BuildSleep

\* no script is running, and the account is as a completed setup leaves it
IdleScripts ==
    /\ IdleClient
    /\ IdleSetup
    /\ iamRole /\ repository
    /\ IdleBuild

(***************************************************************************)
(* Specifications                                                          *)
(***************************************************************************)
\* no deploy run is started
IdleDeploy ==
    /\ ROLE_ARN = [r \in Runs |-> "set"]
    /\ REPO_URI = [r \in Runs |-> "set"]
    /\ cp = <<>>
    /\ cp0 = cp
    /\ InitRun({})

\* the deploy script alone: the server is not started
Init == InitDeploy /\ InitServer /\ IdleScripts

Next == NextDeploy

Spec == Init /\ [][Next]_vars

\* The deploy script under fair scheduling, against a control plane that reports
\* a status other than CREATING / UPDATING at the latest on poll number MaxPolls.
GetOkEventually(r) ==
    /\ GetOk(r)
    /\ Cardinality(CallsOf(r, "get")) = MaxPolls - 1 => status'[r] \notin InProgress

StepLive(r) ==
    \/ Validate(r)
    \/ ListOk(r)
    \/ ListFail(r)
    \/ UpdateOk(r)
    \/ UpdateFail(r)
    \/ CreateOk(r)
    \/ CreateFail(r)
    \/ Sleep(r)
    \/ GetOkEventually(r)
    \/ GetFail(r)

NextLive == \E r \in Runs : StepLive(r)

SpecLive == Init /\ [][NextLive]_vars /\ \A r \in Runs : WF_vars(StepLive(r))

\* Two deploy runs started together, with valid variables, against a control plane
\* that holds no runtime named AGENT_NAME and rejects a create whose name is taken.
InitRace ==
    /\ ROLE_ARN = [r \in Runs |-> "set"]
    /\ REPO_URI = [r \in Runs |-> "set"]
    /\ cp \in {plane \in InitialControlPlanes : ~NameExists(plane, AGENT_NAME)}
    /\ cp0 = cp
    /\ InitRun(Runs)
    /\ InitServer
    /\ IdleScripts

NextRace == NextDeploy \/ \E r \in Runs : CreateConflict(r)

SpecRace == InitRace /\ [][NextRace]_vars

\* the invocation client alone
InitC ==
    /\ IdleDeploy
    /\ InitServer
    /\ IdleScripts

SpecClient == InitC /\ [][NextClient]_vars

\* the setup script alone
InitSetup ==
    /\ IdleDeploy
    /\ InitServer
    /\ IdleClient
    /\ IdleSetup
    /\ IdleBuild

SpecSetup == InitSetup /\ [][NextSetup]_vars

\* the build script alone, about to start the build
InitBuild ==
    /\ IdleDeploy
    /\ InitServer
    /\ IdleClient
    /\ IdleSetup
    /\ iamRole /\ repository
    /\ buildPc = "start-build"
    /\ NotStarted

SpecBuild == InitBuild /\ [][NextBuild]_vars

\* the server alone
InitS == IdleDeploy /\ InitServer /\ IdleScripts

SpecServer == InitS /\ [][NextServer]_vars

(***************************************************************************)
(* Properties of the deploy script                                         *)
(***************************************************************************)
Last(seq) == seq[Len(seq)]

Count(r, op) == Cardinality(CallsOf(r, op))

AllCallsOk(r) == \A i \in 1..Len(calls[r]) : calls[r][i].ok

ValidInputs(r) ==
    /\ ROLE_ARN[r] # Undefined /\ ROLE_ARN[r] # ""
    /\ REPO_URI[r] # Undefined /\ REPO_URI[r] # ""

\* the listing the run received holds an entry named AGENT_NAME
Listed(r) == \E i \in 1..Len(listing[r]) : listing[r][i].agentRuntimeName = AGENT_NAME

\* the statuses the run has observed, in order
Statuses(r) == [i \in 1..Len(observed[r]) |-> observed[r][i].status]

\* the run has just received a getRuntime response (its last call is that get)
JustObserved(r) ==
    /\ observed[r] # <<>>
    /\ Last(calls[r]).op = "get" /\ Last(calls[r]).ok
    /\ Count(r, "get") = Len(observed[r])

ReportedReady(r) == pc[r] = "exit" /\ success[r] # "none"

EndedInError(r) == pc[r] = "exit" /\ exitCode[r] = 1 /\ error[r] # <<>> /\ success[r] = "none"

\* C1 (idempotent targeting): a run never issues both kinds of call nor one kind
\* twice, never creates when the listing it received holds the target name, never
\* updates when it does not, and a run that ended with valid inputs and no failed
\* remote call has issued exactly one updateRuntime and no createRuntime (name
\* listed), or exactly one createRuntime and no updateRuntime (name not listed).
C1_IdempotentTargeting ==
    \A r \in Runs :
        /\ Count(r, "create") + Count(r, "update") <= 1
        /\ Listed(r) => Count(r, "create") = 0
        /\ ~Listed(r) => Count(r, "update") = 0
        /\ (pc[r] = "exit" /\ ValidInputs(r) /\ AllCallsOk(r)) =>
              IF Listed(r)
              THEN Count(r, "update") = 1 /\ Count(r, "create") = 0
              ELSE Count(r, "create") = 1 /\ Count(r, "update") = 0

C1_Witness ==
    \E r \in Runs :
        /\ pc[r] = "exit" /\ ValidInputs(r) /\ AllCallsOk(r)
        /\ Listed(r) /\ Len(listing[r]) = 2
        /\ Count(r, "update") = 1 /\ Count(r, "create") = 0

\* C2 (no partial success), as claimed: a run that reports the runtime READY has
\* READY as the last status it observed, and a run that ended after observing any
\* other last status ended in an error.
C2_ReadyOrRaises ==
    \A r \in Runs :
        /\ ReportedReady(r) => (observed[r] # <<>> /\ Last(observed[r]).status = "READY")
        /\ (pc[r] = "exit" /\ observed[r] # <<>> /\ Last(observed[r]).status # "READY")
              => EndedInError(r)

\* C3 (forward compatibility), as claimed: after a getRuntime response whose status
\* is none of the five named ones the poller goes on polling: it has neither
\* returned nor raised.
NamedStatuses == {"CREATING", "UPDATING", "CREATE_FAILED", "UPDATE_FAILED", "READY"}

C3_UnknownStatusKeepsPolling ==
    \A r \in Runs :
        (JustObserved(r) /\ Last(observed[r]).status \notin NamedStatuses)
            => pc[r] \in {"sleep", "get"}

\* C4 (terminal convergence): every status observed before the last one is an
\* in-progress one (nothing is polled after READY), and once the run has observed
\* k in-progress statuses followed by READY it has made exactly k+1 getRuntime
\* calls, waitForReady has returned READY and the run is over without an error.
C4_TerminalConvergence ==
    \A r \in Runs :
        /\ \A i \in 1..Len(observed[r]) - 1 : observed[r][i].status \in {"CREATING", "UPDATING"}
        /\ (observed[r] # <<>> /\ Last(observed[r]).status = "READY") =>
              /\ Count(r, "get") = Len(observed[r])
              /\ status[r] = "READY"
              /\ pc[r] = "exit" /\ exitCode[r] = 0 /\ error[r] = <<>>
              /\ success[r] # "none"

C4_Witness ==
    \E r \in Runs :
        /\ Statuses(r) = <<"CREATING", "CREATING", "READY">>
        /\ Count(r, "get") = 3
        /\ pc[r] = "exit" /\ status[r] = "READY"

\* C5 (failure surfacing): once a getRuntime response with status CREATE_FAILED or
\* UPDATE_FAILED and a non-empty failureReason has been observed, the run has
\* ended with exit status 1 and an error whose message starts "Deployment failed: "
\* and contains the reason; that response is the run's last remote call and no
\* READY line was printed.
C5_FailureSurfacing ==
    \A r \in Runs : \A i \in 1..Len(observed[r]) :
        (/\ observed[r][i].status \in {"CREATE_FAILED", "UPDATE_FAILED"}
         /\ observed[r][i].failureReason # Undefined
         /\ observed[r][i].failureReason # "") =>
            /\ i = Len(observed[r])
            /\ JustObserved(r)
            /\ pc[r] = "exit" /\ exitCode[r] = 1 /\ success[r] = "none"
            /\ Len(error[r]) = 2 /\ error[r][1] = "Deployment failed: "
            /\ \E k \in 1..Len(error[r]) : error[r][k] = observed[r][i].failureReason

C5_Witness ==
    \E r \in Runs :
        /\ Statuses(r) = <<"UPDATING", "UPDATE_FAILED">>
        /\ Last(observed[r]).failureReason = "image pull failed"
        /\ error[r] = <<"Deployment failed: ", "image pull failed">>
        /\ exitCode[r] = 1

\* C6 (missing-reason default), as claimed: after a failure status without a
\* failureReason the message contains "Unknown", and when the response carries a
\* failureReason the default is not used (the message carries that reason).
C6_DefaultOnlyWhenAbsent ==
    \A r \in Runs :
        (observed[r] # <<>> /\ Last(observed[r]).status \in {"CREATE_FAILED", "UPDATE_FAILED"}) =>
            LET reason == Last(observed[r]).failureReason
            IN  /\ reason = Undefined => error[r] = <<"Deployment failed: ", "Unknown">>
                /\ reason # Undefined => error[r] = <<"Deployment failed: ", reason>>

\* C6, amended: the message contains "Unknown" when the failureReason is absent
\* or the empty string, and carries the remote reason in every other case.
C6_DefaultWhenAbsentOrEmpty ==
    \A r \in Runs :
        (observed[r] # <<>> /\ Last(observed[r]).status \in {"CREATE_FAILED", "UPDATE_FAILED"}) =>
            LET reason == Last(observed[r]).failureReason
            IN  /\ (reason = Undefined \/ reason = "")
                      => error[r] = <<"Deployment failed: ", "Unknown">>
                /\ ~(reason = Undefined \/ reason = "")
                      => error[r] = <<"Deployment failed: ", reason>>

C6_Witness ==
    \E r \in Runs :
        /\ observed[r] # <<>>
        /\ Last(observed[r]).status = "CREATE_FAILED"
        /\ Last(observed[r]).failureReason = Undefined
        /\ error[r] = <<"Deployment failed: ", "Unknown">>

\* C7 (config validation): a run whose ROLE_ARN or REPO_URI is missing or empty
\* never issues a remote call and leaves the control plane as it was; once it has
\* taken its first step it has ended with exit status 1 and the configuration
\* error, without a READY line.
C7_ConfigValidation ==
    \A r \in Runs :
        (ROLE_ARN[r] \in {Undefined, ""} \/ REPO_URI[r] \in {Undefined, ""}) =>
            /\ calls[r] = <<>>
            /\ observed[r] = <<>>
            /\ cp = cp0
            /\ pc[r] # "start" =>
                  /\ pc[r] = "exit" /\ exitCode[r] = 1 /\ success[r] = "none"
                  /\ error[r] = ConfigMessage

C7_Witness ==
    \E r \in Runs :
        /\ REPO_URI[r] = "" /\ ROLE_ARN[r] = "set"
        /\ pc[r] = "exit" /\ error[r] = ConfigMessage /\ calls[r] = <<>>

\* C8 (remote errors are neither swallowed nor retried): a failed remote call is
\* the last call of its run, and the run has ended with exit status 1 and an
\* error, without a READY line.
C8_RemoteErrorsPropagate ==
    \A r \in Runs : \A i \in 1..Len(calls[r]) :
        ~calls[r][i].ok =>
            /\ i = Len(calls[r])
            /\ pc[r] = "exit" /\ exitCode[r] = 1 /\ success[r] = "none"
            /\ error[r] = TransportError

C8_Witness ==
    \E r \in Runs :
        /\ Len(calls[r]) = 3
        /\ calls[r][1].op = "list" /\ calls[r][1].ok
        /\ calls[r][2].op = "create" /\ calls[r][2].ok
        /\ calls[r][3].op = "get" /\ ~calls[r][3].ok
        /\ pc[r] = "exit" /\ exitCode[r] = 1

(***************************************************************************)
(* Properties of the server                                                *)
(***************************************************************************)
Received(i, route) == reqs[i].route = route

\* no prompt can be extracted from the request: it has no body, a body of a
\* Content-Type no parser reads, an empty text body, or a JSON body that is empty,
\* is not a JSON object or holds no non-empty input.prompt
NoPromptIn(req) ==
    \/ ~req.hasBody
    \/ req.ctype \notin {"application/octet-stream", "application/json"}
    \/ req.ctype = "application/octet-stream" /\ req.raw = ""
    \/ req.ctype = "application/json" /\ req.raw # "{\"input\":{\"prompt\":\"hi\"}}"

InvokedFor(i) == \E k \in 1..Len(agentCalls) : agentCalls[k].req = i

\* C9 (invocation input validation): every POST /invocations request from which
\* no prompt can be extracted has been answered with exactly one response, of
\* status 400, and agent.invoke was never called for it.
C9_NoPromptIs400 ==
    \A i \in RequestIds :
        (Received(i, "POST /invocations") /\ NoPromptIn(reqs[i])) =>
            /\ Len(replies[i]) = 1
            /\ replies[i][1].status = 400
            /\ stage[i] = "answered"
            /\ ~InvokedFor(i)

C9_Witness ==
    \E i, j \in RequestIds :
        /\ Received(i, "POST /invocations")
        /\ reqs[i].ctype = "application/json" /\ reqs[i].raw = "{\"input\":{\"prompt\":\"\"}}"
        /\ replies[i] = <<Reply(400, "text/html", <<"No prompt provided">>)>>
        /\ Received(j, "POST /invocations") /\ ~reqs[j].hasBody
        /\ replies[j] = <<Reply(400, "text/html", <<"No prompt provided">>)>>

\* the body-parsing middleware rejects the request: a JSON body that is not empty
\* and not a JSON object
RejectedByParser(req) ==
    req.hasBody /\ req.ctype = "application/json" /\ req.raw \notin (JsonObjects \cup {""})

Healthy == Reply(200, "application/json", <<"{\"status\":\"Healthy\"}">>)

OwnCalls(i) == {k \in 1..Len(agentCalls) : agentCalls[k].req = i}

\* the prompt a request carries: the text of an octet-stream body, or input.prompt
\* of a JSON body
PromptIn(req) == IF req.ctype = "application/octet-stream" THEN req.raw ELSE "hi"

\* C11 (invocation outcome): a POST /invocations request never has more than one
\* response. Without a prompt it has exactly one, of status 400. With a prompt it
\* has none while its agent.invoke is pending, exactly the agent's text as
\* text/plain with status 200 once the call has resolved, and exactly one response
\* of status 500 carrying "Error: " and the error's text once the call has
\* rejected: a rejected call never gives a 200 and never leaves the request open.
C11_InvocationOutcome ==
    \A i \in RequestIds :
        Received(i, "POST /invocations") =>
            /\ Len(replies[i]) <= 1
            /\ NoPromptIn(reqs[i]) =>
                  (Len(replies[i]) = 1 /\ replies[i][1].status = 400)
            /\ ~NoPromptIn(reqs[i]) =>
                  \E k \in OwnCalls(i) :
                     /\ agentCalls[k].outcome = "pending" =>
                           (replies[i] = <<>> /\ stage[i] = "awaiting")
                     /\ agentCalls[k].outcome = "resolved" =>
                           (/\ replies[i] = <<Reply(200, "text/plain", <<agentCalls[k].text>>)>>
                            /\ stage[i] = "answered")
                     /\ agentCalls[k].outcome = "rejected" =>
                           (/\ Len(replies[i]) = 1
                            /\ replies[i][1].status = 500
                            /\ replies[i][1].body = <<"Error: ", agentCalls[k].text>>
                            /\ stage[i] = "answered")

C11_Witness ==
    \E i, j \in RequestIds :
        /\ Received(i, "POST /invocations") /\ Received(j, "POST /invocations")
        /\ Len(replies[i]) = 1 /\ replies[i][1].status = 500
        /\ replies[j] = <<Reply(200, "text/plain", <<"sunny">>)>>

\* C20 (request isolation): under every interleaving, a POST /invocations request
\* with a prompt has exactly one agent.invoke call, made with the request's own
\* prompt; the response to the request carries the text that call resolved to, or
\* the error it rejected with; and a call is made only for a request with a prompt.
C20_RequestIsolation ==
    /\ \A k \in 1..Len(agentCalls) :
          /\ Received(agentCalls[k].req, "POST /invocations")
          /\ ~NoPromptIn(reqs[agentCalls[k].req])
    /\ \A i \in RequestIds :
          (Received(i, "POST /invocations") /\ ~NoPromptIn(reqs[i])) =>
              /\ Cardinality(OwnCalls(i)) = 1
              /\ \A k \in OwnCalls(i) :
                    /\ agentCalls[k].prompt = PromptIn(reqs[i])
                    /\ stage[i] = "awaiting" => agentCalls[k].outcome = "pending"
                    /\ stage[i] = "answered" =>
                          /\ agentCalls[k].outcome \in {"resolved", "rejected"}
                          /\ Len(replies[i]) = 1
                          /\ replies[i][1].body =
                                IF agentCalls[k].outcome = "resolved"
                                THEN <<agentCalls[k].text>>
                                ELSE <<"Error: ", agentCalls[k].text>>

\* the second request was answered while the first, with another prompt, is
\* still waiting for the agent
C20_Witness ==
    /\ stage[1] = "awaiting" /\ stage[2] = "answered"
    /\ Received(1, "POST /invocations") /\ Received(2, "POST /invocations")
    /\ PromptIn(reqs[1]) # PromptIn(reqs[2])
    /\ OwnCalls(1) = {1} /\ OwnCalls(2) = {2}
    /\ replies[2] = <<Reply(200, "text/plain", <<"4">>)>>

\* the messages a run can end with: a missing variable, a rejected remote call,
\* or a failure status
KnownErrors ==
    {ConfigMessage, TransportError}
    \cup {<<"Deployment failed: ", reason>> : reason \in {"Unknown", "image pull failed"}}

\* C13 (termination of the deploy): under fair scheduling, when the control plane
\* eventually reports a status other than CREATING / UPDATING or a remote call
\* fails, every started run eventually ends, with the READY line or with an error
\* and exit code 1; and no run ever ends with an error other than a missing
\* variable, a rejected remote call or a reported failure status: there is no
\* timeout error.
C13_Termination ==
    /\ \A r \in Runs :
          (pc[r] # "off") ~> (pc[r] = "exit" /\ (ReportedReady(r) \/ EndedInError(r)))
    /\ [](\A r \in Runs : error[r] # <<>> => error[r] \in KnownErrors)

\* a run that ended after MaxPolls polls, all but the last one in progress
C13_Witness ==
    \E r \in Runs :
        /\ pc[r] = "exit"
        /\ Len(observed[r]) = MaxPolls
        /\ \A i \in 1..(MaxPolls - 1) : observed[r][i].status \in InProgress

\* the run has entered waitForReady
InPoller(r) == \E i \in 1..Len(calls[r]) : calls[r][i].op \in {"create", "update"} /\ calls[r][i].ok

\* C14 (wait before every getRuntime): the number of waits of a run equals its number of
\* getRuntime calls, plus one while the call that follows a wait has not been
\* made yet; a run never waits outside the poller; and a run that left the poller,
\* by returning or by raising, has waited at least once and called getRuntime at
\* least once, whatever status the create / update response carried.
C14_SleepThenCheck ==
    \A r \in Runs :
        /\ sleeps[r] = Count(r, "get") + (IF pc[r] = "get" THEN 1 ELSE 0)
        /\ ~InPoller(r) => (sleeps[r] = 0 /\ Count(r, "get") = 0)
        /\ (InPoller(r) /\ pc[r] = "exit") => (sleeps[r] >= 1 /\ Count(r, "get") >= 1)
        /\ ReportedReady(r) => (sleeps[r] >= 1 /\ Count(r, "get") = sleeps[r])

\* the create / update response already said READY, and the run still waited and
\* asked twice before it reported READY
C14_Witness ==
    \E r \in Runs :
        /\ response[r].status = "READY"
        /\ ReportedReady(r)
        /\ sleeps[r] = 2 /\ Count(r, "get") = 2

\* C15 (call ordering): the first remote call of a run is listRuntimes and there
\* is no other; a createRuntime / updateRuntime is the second call and follows a
\* list that returned; a getRuntime comes third or later and follows a create /
\* update that returned successfully; a rejected call is the last call of the
\* run; and the run is at one place of the script at a time, each call returning
\* before the next is issued.
C15_CallOrdering ==
    \A r \in Runs :
        /\ \A i \in 1..Len(calls[r]) :
              /\ calls[r][i].op = "list" <=> i = 1
              /\ calls[r][i].op \in {"create", "update"} <=> i = 2
              /\ calls[r][i].op = "get" <=> i >= 3
              /\ ~calls[r][i].ok => i = Len(calls[r])
        /\ pc[r] \in {"create", "update"} => (Len(calls[r]) = 1 /\ calls[r][1].ok)
        /\ pc[r] \in {"sleep", "get"} => (Len(calls[r]) >= 2 /\ AllCallsOk(r))
        /\ pc[r] \in {"off", "start", "list"} => calls[r] = <<>>

C15_Witness ==
    \E r \in Runs :
        /\ Len(calls[r]) = 4
        /\ [i \in 1..4 |-> calls[r][i].op] = <<"list", "update", "get", "get">>
        /\ AllCallsOk(r)
        /\ pc[r] = "exit"

\* the places of the listing a run received that hold the target name
TargetEntries(r) ==
    {i \in 1..Len(listing[r]) : listing[r][i].agentRuntimeName = AGENT_NAME}

FirstTarget(r) == CHOOSE i \in TargetEntries(r) : \A j \in TargetEntries(r) : i <= j

\* C16 (tie-break on duplicate names): a run whose listing holds more than one
\* entry of the target name issues no createRuntime, at most one updateRuntime,
\* and that one against the id of the first such entry in listing order; it ends
\* in an error only when a remote call was rejected or a failure status was
\* reported, and otherwise, once ended, has issued exactly one updateRuntime.
C16_FirstOfDuplicates ==
    \A r \in Runs :
        Cardinality(TargetEntries(r)) > 1 =>
            /\ Count(r, "create") = 0
            /\ Count(r, "update") <= 1
            /\ \A i \in CallsOf(r, "update") :
                  calls[r][i].req.agentRuntimeId =
                      listing[r][FirstTarget(r)].agentRuntimeId
            /\ error[r] # <<>> =>
                  \/ ~AllCallsOk(r)
                  \/ \E i \in 1..Len(observed[r]) : observed[r][i].status \in Failed
            /\ (pc[r] = "exit" /\ AllCallsOk(r)) => Count(r, "update") = 1

C16_Witness ==
    \E r \in Runs :
        /\ TargetEntries(r) = {1, 2}
        /\ ReportedReady(r)
        /\ calls[r][2].op = "update" /\ calls[r][2].req.agentRuntimeId = 1

\* C17 as stated (request targeting): the create / update request carries the
\* supplied container reference itself.
C17_SuppliedReferenceAsIs ==
    \A r \in Runs : \A i \in CallsOf(r, "create") \cup CallsOf(r, "update") :
        calls[r][i].req.containerUri = <<REPO_URI[r]>>

\* C17 (request targeting): an updateRuntime request carries the id of a listing
\* entry of the target name and no name; a createRuntime request carries the
\* target name and no id; both carry the supplied repository URI followed by
\* ":latest", the supplied role and networkMode PUBLIC; and every getRuntime
\* request carries exactly the id the create / update response returned.
C17_RequestTargeting ==
    \A r \in Runs : \A i \in 1..Len(calls[r]) :
        LET op == calls[r][i].op
            req == calls[r][i].req
        IN  /\ op \in {"create", "update"} =>
                  /\ req.containerUri = <<REPO_URI[r], ":latest">>
                  /\ req.roleArn = ROLE_ARN[r]
                  /\ req.networkMode = "PUBLIC"
            /\ op = "update" =>
                  /\ \E j \in TargetEntries(r) :
                        req.agentRuntimeId = listing[r][j].agentRuntimeId
                  /\ req.agentRuntimeName = Undefined
            /\ op = "create" =>
                  /\ req.agentRuntimeName = AGENT_NAME
                  /\ req.agentRuntimeId = 0
            /\ op = "get" =>
                  /\ response[r] # NoResponse
                  /\ req.agentRuntimeId = response[r].agentRuntimeId
                  /\ calls[r][2].op = "update" =>
                        req.agentRuntimeId = calls[r][2].req.agentRuntimeId
                  /\ calls[r][2].op = "create" =>
                        /\ req.agentRuntimeId \notin {cp0[j].id : j \in 1..Len(cp0)}
                        /\ \E j \in 1..Len(cp) :
                              cp[j].id = req.agentRuntimeId /\ cp[j].name = AGENT_NAME

\* a run that created the runtime next to another one and polled the new id twice
C17_Witness ==
    \E r \in Runs :
        /\ Len(cp0) = 1
        /\ Len(calls[r]) = 4
        /\ calls[r][2].op = "create" /\ calls[r][2].ok
        /\ calls[r][3].req.agentRuntimeId = 2 /\ calls[r][4].req.agentRuntimeId = 2

\* C19 (frame of a deploy): the control plane holds every runtime it held before
\* the run, under the same id and name; a runtime that differs from what it was
\* before the run, or that was not there before, has the target name; and every
\* create / update request addresses the target name or a runtime of that name.
C19_Frame ==
    /\ Len(cp) >= Len(cp0)
    /\ \A i \in 1..Len(cp0) :
          /\ cp[i].id = cp0[i].id /\ cp[i].name = cp0[i].name
          /\ cp[i] # cp0[i] => cp[i].name = AGENT_NAME
    /\ \A i \in (Len(cp0) + 1)..Len(cp) : cp[i].name = AGENT_NAME
    /\ \A r \in Runs :
          /\ \A i \in CallsOf(r, "create") : calls[r][i].req.agentRuntimeName = AGENT_NAME
          /\ \A i \in CallsOf(r, "update") :
                \E j \in 1..Len(cp) :
                    /\ cp[j].id = calls[r][i].req.agentRuntimeId
                    /\ cp[j].name = AGENT_NAME

\* the runtime of the target name was updated next to one of another name
C19_Witness ==
    /\ Len(cp0) = 2 /\ Len(cp) = 2
    /\ cp0[1].name # AGENT_NAME /\ cp0[2].name = AGENT_NAME
    /\ cp[1] = cp0[1] /\ cp[2] # cp0[2]
    /\ \E r \in Runs : ReportedReady(r)

\* the run's createRuntime call was rejected
CreateRejected(r) == \E i \in CallsOf(r, "create") : ~calls[r][i].ok

\* the runtimes of the control plane that carry the target name
Targets(plane) == {i \in 1..Len(plane) : plane[i].name = AGENT_NAME}

\* C18 (concurrent deploys are not arbitrated): with two runs interleaved against
\* a control plane that started without the target name, a run whose createRuntime
\* was rejected has made no call after it, has issued no updateRuntime, and has
\* ended with exit code 1 and the rejection as its error, which is the
\* ConflictError whenever the other run's create went through; and the control
\* plane never holds more than one runtime of the target name.
C18_RaceNotArbitrated ==
    /\ \A r \in Runs :
          CreateRejected(r) =>
              /\ Last(calls[r]).op = "create"
              /\ Count(r, "update") = 0
              /\ pc[r] = "exit" /\ exitCode[r] = 1 /\ success[r] = "none"
              /\ error[r] \in {ConflictError, TransportError}
              /\ error[r] = ConflictError => Targets(cp) # {}
    /\ Cardinality(Targets(cp)) <= 1

\* both runs listed before either created, both issued createRuntime, one was
\* served and the other ended with the ConflictError
C18_Witness ==
    \E w, l \in Runs :
        /\ w # l
        /\ TargetEntries(w) = {} /\ TargetEntries(l) = {}
        /\ Count(w, "create") = 1 /\ ~CreateRejected(w)
        /\ CreateRejected(l) /\ error[l] = ConflictError
        /\ pc[l] = "exit" /\ exitCode[l] = 1
        /\ ReportedReady(w)

(***************************************************************************)
(* Properties of the invocation client                                     *)
(***************************************************************************)
\* the commands the current client run has handed to client.send
SentByRun == {i \in 1..Len(invocations) : invocations[i].run = clientRun}

\* the current client run has had a send or a body read rejected
RemoteFailed == \E i \in 1..Len(stderr) : stderr[i][1] = "Invocation failed:"

\* C21 (client failure handling): a client run whose AGENT_RUNTIME_ARN is not set
\* or empty sends nothing and, once past the validation, has ended with exit
\* status 1; a run whose invocation failed has ended with exit status 1 and has
\* printed no agent response; a run hands at most one command to client.send, no
\* run adds a command to an earlier run's, and a run that ended with exit status 0
\* sent exactly one command and printed exactly one agent response.
C21_ClientFailureHandling ==
    /\ (clientRun > 0 /\ (AGENT_RUNTIME_ARN = Undefined \/ AGENT_RUNTIME_ARN = "")) =>
          /\ SentByRun = {}
          /\ clientPc \in {"start", "exit"}
          /\ clientPc = "exit" => (clientExit = 1 /\ stdout = <<>>)
    /\ RemoteFailed =>
          /\ clientPc = "exit"
          /\ clientExit # 0
          /\ stdout = <<>>
    /\ Cardinality(SentByRun) <= 1
    /\ \A k \in 1..MaxClientRuns :
          Cardinality({i \in 1..Len(invocations) : invocations[i].run = k}) <= 1
    /\ \A i \in 1..Len(invocations) : invocations[i].run <= clientRun
    /\ (clientPc = "exit" /\ clientExit = 0) =>
          (Cardinality(SentByRun) = 1 /\ Len(stdout) = 1 /\ stderr = <<>>)

\* a second run whose send was rejected, after a first run that was answered
C21_Witness ==
    /\ clientRun = 2
    /\ Len(invocations) = 2
    /\ RemoteFailed /\ clientPc = "exit" /\ clientExit = 1
    /\ invocations[1].run = 1 /\ invocations[2].run = 2

(***************************************************************************)
(* Properties of the setup script                                          *)
(***************************************************************************)
\* the run reached the end of the script ("Setup complete!")
SetupCompleted == setupRun > 0 /\ setupPc = "exit" /\ setupExit = 0

Issued(cmd) == \E i \in 1..Len(setupCalls) : setupCalls[i] = cmd

\* get-role, respectively describe-repositories, succeeded in the run: the next
\* command was not the create
FoundRole ==
    \E i \in 1..(Len(setupCalls) - 1) :
        setupCalls[i] = "get-role" /\ setupCalls[i + 1] = "describe-repositories"

FoundRepository ==
    /\ setupPc = "exit"
    /\ setupCalls # <<>>
    /\ setupCalls[Len(setupCalls)] = "describe-repositories"

\* C22 (setup is idempotent and converges): after any sequence of runs, aborted
\* ones included, a run that completed leaves the role with its
\* AgentCoreRuntimePolicy and the repository with its lifecycle policy; and a run
\* that found the role, respectively the repository, issues no create-role,
\* respectively no create-repository.
C22_SetupConverges ==
    /\ SetupCompleted => (iamRole /\ rolePolicy /\ repository /\ lifecyclePolicy)
    /\ FoundRole => ~Issued("create-role")
    /\ FoundRepository => ~Issued("create-repository")

(***************************************************************************)
(* Properties of the build script's wait loop                              *)
(***************************************************************************)
EndStatuses == {"SUCCEEDED", "FAILED", "FAULT", "STOPPED"}

\* the value the last batch-get-builds printed, if any
LastStatus == IF buildStatuses = <<>> THEN Undefined ELSE buildStatuses[Len(buildStatuses)]

\* the script has reached the wait loop
LoopEntered == buildOut # <<>>

ImagePushed == \E i \in 1..Len(buildOut) : buildOut[i][1] = "Image pushed to: "

\* the part of the statement that holds whether or not a command fails: the loop
\* is left with success exactly on SUCCEEDED, with status 1 exactly on FAILED,
\* FAULT or STOPPED, every other value is followed by one sleep and another
\* poll, and "Image pushed" follows a SUCCEEDED
LoopOutcome ==
    /\ (buildPc = "exit" /\ buildExit = 0) <=> LastStatus = "SUCCEEDED"
    /\ (buildPc = "exit" /\ buildExit = 1) <=> LastStatus \in {"FAILED", "FAULT", "STOPPED"}
    /\ \A i \in 1..(Len(buildStatuses) - 1) : buildStatuses[i] \notin EndStatuses
    /\ (LastStatus # Undefined /\ LastStatus \notin EndStatuses) =>
          \/ buildPc = "sleep" /\ buildWaits = Len(buildStatuses) - 1
          \/ buildPc = "poll" /\ buildWaits = Len(buildStatuses)
          \/ buildPc = "exit" /\ buildWaits = Len(buildStatuses)
    /\ buildPc = "poll" => buildWaits = Len(buildStatuses)
    /\ ImagePushed <=> LastStatus = "SUCCEEDED"

\* C23 as stated (image build wait loop): the outcomes above, and a script that
\* reached the loop ends only if the build has reported SUCCEEDED, FAILED, FAULT
\* or STOPPED.
C23_EndsOnlyOnEndStatus ==
    /\ LoopOutcome
    /\ (LoopEntered /\ buildPc = "exit") => LastStatus \in EndStatuses

\* C23 (image build wait loop): the outcomes above, and a script that reached
\* the loop ends only if the build has reported SUCCEEDED, FAILED, FAULT or
\* STOPPED, or if the batch-get-builds command itself failed, in which case the
\* script ends with a status that is neither 0 nor 1 and without "Image pushed".
C23_EndsOnEndStatusOrFailedCommand ==
    /\ LoopOutcome
    /\ (LoopEntered /\ buildPc = "exit") =>
          \/ LastStatus \in EndStatuses
          \/ /\ buildExit \notin {0, 1}
             /\ ~ImagePushed

\* the loop ended with status 1 on FAULT after two polls that were followed by a
\* sleep, one of them on a status CodeBuild gives to a build that is over
C23_Witness ==
    /\ buildPc = "exit" /\ buildExit = 1
    /\ buildStatuses = <<"IN_PROGRESS", "TIMED_OUT", "FAULT">>
    /\ buildWaits = 2

====
